---- MODULE Spec2Model ----
(***************************************************************************)
(* Process-management syscalls of the kernel (os/src/syscall/process.rs):  *)
(* sys_exit, sys_yield, sys_get_time and sys_trace, run by the tasks of a  *)
(* single-core cooperative kernel.  The handlers are translated from       *)
(* process.rs.  The task manager, the timer and the trap dispatcher are    *)
(* not part of process.rs; they are modelled from the interface contracts  *)
(* the handlers rely on.                                                   *)
(*                                                                         *)
(* Memory is byte addressed and physical: there is no address translation  *)
(* between the kernel and the tasks, so a raw pointer handed to a handler  *)
(* reaches whatever byte of RAM it names.  An access outside RAM is        *)
(* undefined behaviour; it is modelled as a choice between a kernel fault  *)
(* and an access that completes without touching RAM.                      *)
(***************************************************************************)
EXTENDS Integers, Sequences, FiniteSets, TLC

(* ------------------------------ bounds --------------------------------- *)
NTasks == 2          \* tasks loaded by the kernel
MaxCalls == 2        \* syscalls other than exit issued in one run
RegionSize == 16     \* bytes of RAM owned by each task

(* ---------------------------- constants -------------------------------- *)
USEC_PER_SEC == 1000000     \* process.rs: us / 1_000_000
USIZE_BYTES == 8            \* width of a usize field of TimeVal
BYTE_MOD == 256             \* `as u8` keeps the low eight bits
SYSCALL_EXIT == 93
SYSCALL_YIELD == 124
SYSCALL_GET_TIME == 169
SYSCALL_TRACE == 410

Tasks == 0 .. (NTasks - 1)
NoTask == NTasks
SyscallIds == {SYSCALL_EXIT, SYSCALL_YIELD, SYSCALL_GET_TIME, SYSCALL_TRACE}

(* ---------------------------- memory map ------------------------------- *)
Base(t) == t * RegionSize
RamSize == NTasks * RegionSize
Ram == 0 .. (RamSize - 1)
Region(t) == Base(t) .. (Base(t) + RegionSize - 1)
InRam(a) == a \in Ram
InitByte(a) == (a * 5 + 3) % BYTE_MOD

(* ------------------------------ inputs --------------------------------- *)
ExitCodes == {-1, 0}
DataVals == {255, 258}
AddrVals == {Base(0), Base(NTasks - 1) + USIZE_BYTES, RamSize}
TsVals == {Base(0), Base(NTasks - 1), RamSize}
TzVals == {0, 1}
UsVals == {999999, 1000000, 2500123}
QueryIds == SyscallIds \cup {7}    \* 7: a number no task ever issues
TraceReqs == 0 .. 3
FaultBytes == {0, 170}

VARIABLES
    mem,            \* RAM: byte at every address of Ram
    status,         \* TaskStatus of every task
    current,        \* the task manager's current task
    syscall_times,  \* per task, per syscall number: invocations counted
    pc,             \* where each task is: user, trap, handler, suspended,
                    \* ret (handler returned, trap return pending) or exited
    frame,          \* the syscall each task has in flight: nr and arguments
    ret,            \* the value a handler returned to the task: <<>> or <<v>>
    clock,          \* the last value read from the timer
    logTrace,       \* whether the build logs at trace level
    klog,           \* the kernel log: the lines emitted so far
    halted,         \* run, shutdown (no task left) or panic (kernel fault)
    invoked,        \* history: syscalls each task has issued, by number
    written,        \* history: data operand of the last trace write to a byte
    snap            \* history: a task's region when it entered sys_yield

vars == <<mem, status, current, syscall_times, pc, frame, ret, clock,
          logTrace, klog, halted, invoked, written, snap>>

NoFrame == [nr |-> 0, a0 |-> 0, a1 |-> 0, a2 |-> 0]
RegionOf(m, t) == [a \in Region(t) |-> m[a]]

Init ==
    /\ mem = [a \in Ram |-> InitByte(a)]
    /\ status = [t \in Tasks |-> IF t = 0 THEN "Running" ELSE "Ready"]
    /\ current = 0
    /\ syscall_times = [t \in Tasks |-> [n \in SyscallIds |-> 0]]
    /\ pc = [t \in Tasks |-> "user"]
    /\ frame = [t \in Tasks |-> NoFrame]
    /\ ret = [t \in Tasks |-> <<>>]
    /\ clock = 0
    /\ logTrace \in BOOLEAN
    /\ klog = {}
    /\ halted = "run"
    /\ invoked = [t \in Tasks |-> [n \in SyscallIds |-> 0]]
    /\ written = [a \in Ram |-> <<>>]
    /\ snap = [t \in Tasks |-> <<>>]

(* ------------------------- pure helpers -------------------------------- *)
\* Little-endian bytes of a usize, as the store `*ts = TimeVal {..}` lays them out.
RECURSIVE ByteOf(_, _)
ByteOf(v, i) == IF i = 0 THEN v % BYTE_MOD ELSE ByteOf(v \div BYTE_MOD, i - 1)
RECURSIVE LoadUsize(_, _, _)
LoadUsize(m, a, n) ==
    IF n = 0 THEN 0 ELSE m[a] + BYTE_MOD * LoadUsize(m, a + 1, n - 1)

TimeValSize == 2 * USIZE_BYTES
TimeValAddrs(ts) == ts .. (ts + TimeValSize - 1)

\* TimeVal { sec: us / 1_000_000, usec: us % 1_000_000 }
TimeValOf_nomod(us) == [sec |-> us \div USEC_PER_SEC, usec |-> us]
TimeValOf(us) == [sec |-> us \div USEC_PER_SEC, usec |-> us % USEC_PER_SEC]

\* *ts = tv: sec at offset 0, usec at offset USIZE_BYTES (repr(C)).
StoreTimeVal(m, ts, tv) ==
    [a \in DOMAIN m |->
        IF a \in ts .. (ts + USIZE_BYTES - 1) THEN ByteOf(tv.sec, a - ts)
        ELSE IF a \in (ts + USIZE_BYTES) .. (ts + TimeValSize - 1)
             THEN ByteOf(tv.usec, a - ts - USIZE_BYTES)
        ELSE m[a]]

LoadTimeVal(m, ts) ==
    [sec |-> LoadUsize(m, ts, USIZE_BYTES),
     usec |-> LoadUsize(m, ts + USIZE_BYTES, USIZE_BYTES)]

\* *(_id as *const u8) as isize
ReadByte(m, id) == m[id]

\* *(_id as *mut u8) = _data as u8
WriteByte_untruncated(m, id, data) == [m EXCEPT ![id] = data]
WriteByte_word(m, id, data) ==
    [a \in DOMAIN m |->
        IF a \in id .. (id + USIZE_BYTES - 1) THEN ByteOf(data, a - id) ELSE m[a]]
WriteByte(m, id, data) == [m EXCEPT ![id] = data % BYTE_MOD]

\* TASK_MANAGER.get_syscall_count(id): the current task's count, 0 when none.
get_syscall_count(t, id) ==
    IF id \in SyscallIds THEN syscall_times[t][id] ELSE 0

\* 2 => TASK_MANAGER.get_syscall_count(_id) as isize
QuerySyscallCount_data(t, id, data) == get_syscall_count(t, data)
QuerySyscallCount_prior(t, id, data) ==
    IF get_syscall_count(t, id) > 0 THEN get_syscall_count(t, id) - 1 ELSE 0
QuerySyscallCount(t, id, data) == get_syscall_count(t, id)

\* _ => -1
Unsupported_zero(req) == 0
Unsupported(req) == -1

\* trace!(..): emitted only when the build logs at trace level.
Log(msg) == IF logTrace THEN klog \cup {msg} ELSE klog

(* --------------------------- task manager ------------------------------ *)
\* find_next_task: the first Ready task after `cur`, round robin.
FindNext(st, cur) ==
    LET ready == {i \in 1 .. NTasks : st[(cur + i) % NTasks] = "Ready"}
    IN  IF ready = {} THEN NoTask
        ELSE (cur + (CHOOSE i \in ready : \A j \in ready : i <= j)) % NTasks

\* run_next_task: switch to the next Ready task, or shut down when none is left.
run_next_task(st) ==
    LET n == FindNext(st, current)
    IN  IF n # NoTask
        THEN /\ status' = [st EXCEPT ![n] = "Running"]
             /\ current' = n
             /\ halted' = halted
        ELSE /\ status' = st
             /\ current' = current
             /\ halted' = "shutdown"

\* mark_current_exited(); run_next_task()
exit_current_and_run_next ==
    run_next_task([status EXCEPT ![current] = "Exited"])

\* mark_current_suspended(); run_next_task()
suspend_current_and_run_next ==
    run_next_task([status EXCEPT ![current] = "Ready"])

(* ------------------------------ tasks ---------------------------------- *)
Call(nr, a0, a1, a2) == [nr |-> nr, a0 |-> a0, a1 |-> a1, a2 |-> a2]

\* The operand a request ignores is still passed: it is paired with the id.
DataFor(id) == IF id = Base(0) THEN 255 ELSE 258

TraceCalls ==
    {Call(SYSCALL_TRACE, 0, id, DataFor(id)) : id \in AddrVals}
    \cup {Call(SYSCALL_TRACE, 1, id, d) : id \in AddrVals, d \in DataVals}
    \cup {Call(SYSCALL_TRACE, 2, id, 255) : id \in QueryIds}
    \cup {Call(SYSCALL_TRACE, 2, SYSCALL_TRACE, 258)}
    \cup {Call(SYSCALL_TRACE, r, id, DataFor(id)) :
            r \in TraceReqs \ {0, 1, 2}, id \in {Base(0), RamSize}}

GetTimeCalls ==
    {Call(SYSCALL_GET_TIME, ts, 0, 0) : ts \in TsVals}
    \cup {Call(SYSCALL_GET_TIME, Base(0), tz, 0) : tz \in TzVals}

Calls == {Call(SYSCALL_YIELD, 0, 0, 0)} \cup GetTimeCalls \cup TraceCalls

ExitCalls == {Call(SYSCALL_EXIT, c, 0, 0) : c \in ExitCodes}

RECURSIVE IssuedBy(_)
IssuedBy(n) ==
    IF n = 0 THEN 0
    ELSE invoked[n - 1][SYSCALL_YIELD] + invoked[n - 1][SYSCALL_GET_TIME]
            + invoked[n - 1][SYSCALL_TRACE] + IssuedBy(n - 1)
Issued == IssuedBy(NTasks)

Running(t) == halted = "run" /\ current = t /\ status[t] = "Running"

\* The current task, in user mode, executes ecall.
Ecall ==
    /\ Running(current)
    /\ pc[current] = "user"
    /\ \E c \in Calls \cup ExitCalls :
        /\ c \in Calls => Issued < MaxCalls
        /\ frame' = [frame EXCEPT ![current] = c]
        /\ invoked' = [invoked EXCEPT ![current][c.nr] = @ + 1]
    /\ pc' = [pc EXCEPT ![current] = "trap"]
    /\ UNCHANGED <<mem, status, current, syscall_times, ret, clock, logTrace,
                   klog, halted, written, snap>>

\* The trap dispatcher counts the syscall, then dispatches on its number.
syscall ==
    /\ Running(current)
    /\ pc[current] = "trap"
    /\ syscall_times' =
           [syscall_times EXCEPT ![current][frame[current].nr] = @ + 1]
    /\ pc' = [pc EXCEPT ![current] = "handler"]
    /\ UNCHANGED <<mem, status, current, frame, ret, clock, logTrace, klog,
                   halted, invoked, written, snap>>

InHandler(nr) ==
    /\ Running(current)
    /\ pc[current] = "handler"
    /\ frame[current].nr = nr

(* ----------------------------- handlers -------------------------------- *)
\* A kernel fault while a handler touches memory that is not RAM.
KernelFault ==
    /\ halted' = "panic"
    /\ UNCHANGED <<mem, status, current, pc, ret, written>>

\* The handler returns v; the dispatcher will hand it to the trapped task.
Return(v) ==
    /\ ret' = [ret EXCEPT ![current] = <<v>>]
    /\ pc' = [pc EXCEPT ![current] = "ret"]
    /\ UNCHANGED <<status, current, halted>>

\* The dispatcher writes the result into the task's frame and returns to user
\* mode: the syscall is over.
trap_return ==
    /\ Running(current)
    /\ pc[current] = "ret"
    /\ pc' = [pc EXCEPT ![current] = "user"]
    /\ frame' = [frame EXCEPT ![current] = NoFrame]
    /\ ret' = [ret EXCEPT ![current] = <<>>]
    /\ snap' = [snap EXCEPT ![current] = <<>>]
    /\ UNCHANGED <<mem, status, current, syscall_times, clock, logTrace, klog,
                   halted, invoked, written>>

\* sys_exit(exit_code) -> !
\* exit_current_and_run_next() does not come back, so the panic! that follows
\* it in the source is never reached.
sys_exit_suspends ==
    /\ InHandler(SYSCALL_EXIT)
    /\ klog' = Log(<<"exit", frame[current].a0>>)
    /\ suspend_current_and_run_next
    /\ pc' = [pc EXCEPT ![current] = "suspended"]
    /\ UNCHANGED <<mem, syscall_times, frame, ret, clock, logTrace, invoked,
                   written, snap>>
sys_exit ==
    /\ InHandler(SYSCALL_EXIT)
    /\ klog' = Log(<<"exit", frame[current].a0>>)
    /\ exit_current_and_run_next
    /\ pc' = [pc EXCEPT ![current] = "exited"]
    /\ frame' = [frame EXCEPT ![current] = NoFrame]
    /\ UNCHANGED <<mem, syscall_times, ret, clock, logTrace, invoked,
                   written, snap>>

\* sys_yield() -> isize, up to the switch away from the caller.
sys_yield ==
    /\ InHandler(SYSCALL_YIELD)
    /\ klog' = Log(<<"sys_yield">>)
    /\ suspend_current_and_run_next
    /\ pc' = [pc EXCEPT ![current] = "suspended"]
    /\ snap' = [snap EXCEPT ![current] = <<RegionOf(mem, current)>>]
    /\ UNCHANGED <<mem, syscall_times, frame, ret, clock, logTrace, invoked,
                   written>>

\* sys_yield, from the point where the caller is scheduled again: returns 0.
sys_yield_resume ==
    /\ Running(current)
    /\ pc[current] = "suspended"
    /\ Return(0)
    /\ UNCHANGED <<mem, syscall_times, frame, clock, logTrace, klog, invoked,
                   written, snap>>

\* get_time_us(): the timer's microsecond counter, which never runs backwards.
get_time_us == {us \in UsVals : us >= clock}

\* sys_get_time(ts, _tz) -> isize
sys_get_time ==
    /\ InHandler(SYSCALL_GET_TIME)
    /\ klog' = Log(<<"sys_get_time">>)
    /\ \E us \in get_time_us :
        /\ clock' = us
        /\ \/ /\ mem' = StoreTimeVal(mem, frame[current].a0, TimeValOf(us))
              /\ written' = [a \in Ram |->
                    IF a \in TimeValAddrs(frame[current].a0)
                    THEN <<>> ELSE written[a]]
              /\ Return(0)
           \/ /\ ~(TimeValAddrs(frame[current].a0) \subseteq Ram)
              /\ KernelFault
    /\ UNCHANGED <<syscall_times, frame, logTrace, invoked, snap>>

\* sys_trace(_trace_request, _id, _data) -> isize
sys_trace ==
    /\ InHandler(SYSCALL_TRACE)
    /\ klog' = Log(<<"sys_trace">>)
    /\ LET req == frame[current].a0
           id == frame[current].a1
           data == frame[current].a2
       IN  \/ /\ req = 0
              /\ InRam(id)
              /\ Return(ReadByte(mem, id))
              /\ UNCHANGED <<mem, written>>
           \/ /\ req = 0
              /\ ~InRam(id)
              /\ \/ KernelFault
                 \/ /\ \E b \in FaultBytes : Return(b)
                    /\ UNCHANGED <<mem, written>>
           \/ /\ req = 1
              /\ InRam(id)
              /\ mem' = WriteByte(mem, id, data)
              /\ written' = [written EXCEPT ![id] = <<data>>]
              /\ Return(0)
           \/ /\ req = 1
              /\ ~InRam(id)
              /\ \/ KernelFault
                 \/ /\ Return(0)
                    /\ UNCHANGED <<mem, written>>
           \/ /\ req = 2
              /\ Return(QuerySyscallCount(current, id, data))
              /\ UNCHANGED <<mem, written>>
           \/ /\ req \notin {0, 1, 2}
              /\ Return(Unsupported(req))
              /\ UNCHANGED <<mem, written>>
    /\ UNCHANGED <<syscall_times, frame, clock, logTrace, invoked, snap>>

Next ==
    \/ Ecall
    \/ syscall
    \/ sys_exit
    \/ sys_yield
    \/ sys_yield_resume
    \/ sys_get_time
    \/ sys_trace
    \/ trap_return

Spec == Init /\ [][Next]_vars

(* ------------------------------ claims --------------------------------- *)
Req(t) == frame[t].a0
Id(t) == frame[t].a1
Data(t) == frame[t].a2
Returned(t, nr) == pc[t] = "ret" /\ frame[t].nr = nr
IssuedCount(t, n) == IF n \in SyscallIds THEN invoked[t][n] ELSE 0

\* C1: a count query trace(2, n, _) returns the number of times the calling
\* task has invoked syscall n (0 when it never has), whatever the data operand.
C1_CountQueryExact ==
    [][(InHandler(SYSCALL_TRACE) /\ Req(current) = 2)
        => /\ pc'[current] = "ret"
           /\ ret'[current] = <<IssuedCount(current, Id(current))>>]_vars

\* C1 witness: a task whose second trace call asked for the count of trace
\* calls got 2, and a task asking about a number it never invoked got 0.
C1_Witness ==
    \E t \in Tasks :
        /\ Returned(t, SYSCALL_TRACE)
        /\ Req(t) = 2
        /\ \/ Id(t) = SYSCALL_TRACE /\ ret[t] = <<2>> /\ Data(t) = 258
           \/ Id(t) = 7 /\ ret[t] = <<0>> /\ invoked[t][SYSCALL_TRACE] = 2

\* C2: a ReadByte or WriteByte whose address lies outside the calling task's
\* own region fails with a negative error code and changes no memory.
C2_InvalidAddressRejected ==
    [][(/\ InHandler(SYSCALL_TRACE)
        /\ Req(current) \in {0, 1}
        /\ Id(current) \notin Region(current))
        => /\ mem' = mem
           /\ ret'[current] # <<>>
           /\ ret'[current][1] < 0]_vars

\* C3: a WriteByte to a byte of RAM returns 0, and a ReadByte of a byte whose
\* last write was WriteByte(addr, v) returns v mod 256.
C3_WriteReadRoundTrip ==
    [][/\ (InHandler(SYSCALL_TRACE) /\ Req(current) = 1 /\ InRam(Id(current)))
            => ret'[current] = <<0>>
       /\ (/\ InHandler(SYSCALL_TRACE)
           /\ Req(current) = 0
           /\ InRam(Id(current))
           /\ written[Id(current)] # <<>>)
            => ret'[current] = <<written[Id(current)][1] % 256>>]_vars

\* C3 witness: a read returned 2 from a byte last written with the value 258.
C3_Witness ==
    \E t \in Tasks :
        /\ Returned(t, SYSCALL_TRACE)
        /\ Req(t) = 0
        /\ InRam(Id(t))
        /\ written[Id(t)] = <<258>>
        /\ ret[t] = <<2>>

\* C4: a trace request other than 0, 1 and 2 returns -1 and leaves memory, the
\* syscall counts and the scheduler state as they were.
C4_UnsupportedRequest ==
    [][(InHandler(SYSCALL_TRACE) /\ Req(current) \notin {0, 1, 2})
        => /\ ret'[current] = <<-1>>
           /\ UNCHANGED <<mem, syscall_times, status, current, halted>>]_vars

\* C4 witness: request 3 with an address outside RAM as id has returned -1.
C4_Witness ==
    \E t \in Tasks :
        /\ Returned(t, SYSCALL_TRACE)
        /\ Req(t) = 3
        /\ ~InRam(Id(t))
        /\ ret[t] = <<-1>>

\* C5: sys_exit never returns: the handler leaves its caller exited and not
\* the current task, and an exited task never moves or receives a result again.
C5_ExitNeverReturns ==
    [][/\ InHandler(SYSCALL_EXIT)
            => /\ pc'[current] = "exited"
               /\ status'[current] = "Exited"
               /\ ret'[current] = <<>>
               /\ (halted' = "run" => current' # current)
       /\ \A t \in Tasks :
            pc[t] = "exited"
                => /\ pc'[t] = "exited"
                   /\ status'[t] = "Exited"
                   /\ ret'[t] = <<>>
                   /\ (halted' = "run" => current' # t)]_vars

\* C5 witness: one task has exited and another has since completed a syscall.
C5_Witness ==
    \E t, u \in Tasks :
        /\ pc[t] = "exited"
        /\ invoked[t][SYSCALL_EXIT] = 1
        /\ halted = "run"
        /\ current = u
        /\ pc[u] = "ret"
        /\ invoked[t][SYSCALL_TRACE] = 1

\* C6: when sys_yield returns to its caller it returns 0 and the caller's own
\* memory region is what it was when it yielded, whatever ran in between.
C6_YieldPreservesPrivateState ==
    \A t \in Tasks :
        Returned(t, SYSCALL_YIELD)
            => ret[t] = <<0>> /\ snap[t] = <<RegionOf(mem, t)>>

\* C7: sys_get_time stores sec and usec with sec * 1_000_000 + usec equal to
\* the timer value read and 0 <= usec < 1_000_000 at ts, and returns 0, for
\* either timezone argument (ts naming sixteen bytes of RAM).
C7_GetTimeDecomposition ==
    [][(InHandler(SYSCALL_GET_TIME) /\ TimeValAddrs(frame[current].a0) \subseteq Ram)
        => LET tv == LoadTimeVal(mem', frame[current].a0)
           IN  /\ ret'[current] = <<0>>
               /\ tv.sec * 1000000 + tv.usec = clock'
               /\ 0 <= tv.usec
               /\ tv.usec < 1000000]_vars

\* C7 witness: with a nonzero timezone argument, the timer value 2500123 was
\* stored as sec = 2, usec = 500123 and 0 was returned.
C7_Witness ==
    \E t \in Tasks :
        /\ Returned(t, SYSCALL_GET_TIME)
        /\ frame[t].a1 = 1
        /\ ret[t] = <<0>>
        /\ clock = 2500123
        /\ LoadTimeVal(mem, frame[t].a0) = [sec |-> 2, usec |-> 500123]

\* C8: sys_exit(exit_code) leaves a record of the exit code it was given and
\* marks the caller exited as it hands over to the scheduler.
C8_ExitCodeRecorded ==
    [][InHandler(SYSCALL_EXIT)
        => /\ <<"exit", frame[current].a0>> \in klog'
           /\ status'[current] = "Exited"]_vars

\* C9: only the task that makes a syscall has its counts changed by it, the
\* count of a syscall is raised by one before its handler runs, and a query
\* about the trace syscall itself counts the query in progress.
C9_CountsPerTask ==
    [][/\ \A t \in Tasks : t # current => syscall_times'[t] = syscall_times[t]
       /\ (pc[current] = "trap" /\ pc'[current] = "handler")
            => syscall_times'[current][frame[current].nr]
                   = syscall_times[current][frame[current].nr] + 1
       /\ (/\ InHandler(SYSCALL_TRACE)
           /\ Req(current) = 2
           /\ Id(current) = SYSCALL_TRACE)
            => /\ ret'[current] = <<syscall_times[current][SYSCALL_TRACE]>>
               /\ ret'[current][1] >= 1
               /\ ret'[current][1] = invoked[current][SYSCALL_TRACE]]_vars

\* C9 witness: while one task is suspended in sys_yield with syscalls counted,
\* another task's first trace call asked for the trace count and got 1.
C9_Witness ==
    \E t, u \in Tasks :
        /\ t # u
        /\ pc[t] = "suspended"
        /\ syscall_times[t][SYSCALL_YIELD] = 1
        /\ syscall_times[t][SYSCALL_TRACE] = 0
        /\ Returned(u, SYSCALL_TRACE)
        /\ Req(u) = 2
        /\ Id(u) = SYSCALL_TRACE
        /\ ret[u] = <<1>>

\* C10: sys_trace never changes the syscall counts; requests 0 and 2 leave all
\* memory unchanged and request 1 changes no byte other than the one at id.
C10_TraceFrame ==
    [][InHandler(SYSCALL_TRACE)
        => /\ syscall_times' = syscall_times
           /\ Req(current) \in {0, 2} => mem' = mem
           /\ Req(current) = 1
                => \A a \in Ram : a # Id(current) => mem'[a] = mem[a]]_vars

\* C10 witness: a WriteByte has returned after changing the byte at id.
C10_Witness ==
    \E t \in Tasks :
        /\ Returned(t, SYSCALL_TRACE)
        /\ Req(t) = 1
        /\ InRam(Id(t))
        /\ mem[Id(t)] = Data(t) % 256
        /\ mem[Id(t)] # InitByte(Id(t))
        /\ syscall_times[t][SYSCALL_TRACE] = 1

====
